---------------------------- MODULE Spec2Model ----------------------------
(***************************************************************************)
(* Record Store of the logbook application (src/database.py): projects,    *)
(* activities and settings kept in one SQLite file, every operation run    *)
(* inside the get_connection context manager (commit on success, rollback  *)
(* on any exception).                                                      *)
(*                                                                         *)
(* Conventions                                                             *)
(*  - Python None and SQL NULL are the empty tuple; an Optional value x is *)
(*    <<x>> on the Python side.                                            *)
(*  - A datetime is a whole number of hours; the TEXT that sqlite3 stores  *)
(*    for it is <<"iso", t>> (the default datetime adapter), read back     *)
(*    with fromisoformat.                                                  *)
(*  - A str is a sequence of one-character strings.                        *)
(*  - Foreign keys are declared in the schema but no connection issues     *)
(*    PRAGMA foreign_keys = ON, so SQLite does not enforce them.           *)
(*  - created_at / updated_at are not modelled (no clock).                 *)
(***************************************************************************)
EXTENDS Integers, Sequences, FiniteSets, TLC

VARIABLES db, last

\* The state: the store and the last call. The operation and the exception of
\* the last call come first because two calls are compared field by field, and
\* what they returned is only comparable between calls of one operation that
\* ended the same way.
vars == <<db, last.op, last.exc, last>>

\* ------------------------------------------------------------------ bounds
MaxProjects == 2
MaxActivities == 2
MaxTime == 2
\* arguments in hours run up to MaxHalfHours half-hours
MaxHalfHours == 4
\* efficiency arguments lie within LevelWindow hundredths of each threshold
LevelWindow == 2
\* calculate_statistics is given up to MaxSamples durations of 1..MaxDuration
\* whole hours
MaxSamples == 3
MaxDuration == 2
\* the statistics are taken over activities of the days 0..MaxDay
MaxDay == 1

\* ------------------------------------------------------- values and inputs
None == <<>>
NULL == <<>>
Some(x) == <<x>>

SP == " "

ProjectIds == 1..MaxProjects
ActivityIds == 1..MaxActivities
DateTimes == 0..MaxTime
OptDateTimes == {None} \cup {Some(t) : t \in DateTimes}

NameInputs == {<<>>, <<SP>>, <<SP, "a">>}
HoursInputs == {0, 1}
CategoryInputs == {"Lainnya"}
StatusInputs == {"active", "paused"}
NotesInputs == {<<>>}

\* inputs of SpecProject: two acceptable projects, and three rejected ones
ProjectInputs ==
    {[name |-> <<"a">>, estimated_hours |-> 1, category |-> "Lainnya"],
     [name |-> <<SP, "b", SP>>, estimated_hours |-> 10, category |-> "Meeting/Diskusi"],
     [name |-> <<>>, estimated_hours |-> 1, category |-> "Lainnya"],
     [name |-> <<SP>>, estimated_hours |-> 10, category |-> "Lainnya"],
     [name |-> <<"a">>, estimated_hours |-> 0, category |-> "Meeting/Diskusi"]}
ProjectStatusInputs == {"active", "completed", "archived"}

\* -------------------------------------------------------------- constants
STATUS_OPTIONS == {"active", "completed", "paused"}

DEFAULT_SETTINGS ==
    [target_hours_per_day |-> "8.0", efficiency_threshold |-> "0.7"]

\* ---------------------------------------------------------- str / datetime
RECURSIVE lstrip(_)
lstrip(s) == IF s # <<>> /\ Head(s) = SP THEN lstrip(Tail(s)) ELSE s

RECURSIVE rstrip(_)
rstrip(s) ==
    IF s # <<>> /\ s[Len(s)] = SP THEN rstrip(SubSeq(s, 1, Len(s) - 1)) ELSE s

strip(s) == rstrip(lstrip(s))

\* sqlite3's default adapter: datetime -> ISO text; None -> NULL
adapt_datetime(t) == <<"iso", t>>
adapt(opt) == IF opt = None THEN NULL ELSE adapt_datetime(opt[1])
fromisoformat(text) == text[2]

\* (end_time - start_time).total_seconds() / 3600
total_seconds(delta) == delta * 3600
duration_of(start_time, end_time) == total_seconds(end_time - start_time) \div 3600

\* ------------------------------------------------------------ SQL helpers
RECURSIVE SumDurations(_, _)
\* SUM(duration_hours) over the activity rows ids; NULLs are skipped, and the
\* sum of no non-NULL value is NULL
SumDurations(acts, ids) ==
    IF ids = {} THEN NULL
    ELSE LET i == CHOOSE x \in ids : TRUE
             rest == SumDurations(acts, ids \ {i})
             d == acts[i].duration_hours
         IN  IF d = NULL THEN rest
             ELSE IF rest = NULL THEN d
             ELSE <<rest[1] + d[1]>>

COALESCE(v, default) == IF v = NULL THEN default ELSE v[1]

Without(table, ids) == [i \in DOMAIN table \ ids |-> table[i]]

\* ----------------------------------------------------- operation outcomes
\* An outcome is the store the body leaves behind, the exception raised (or
\* "none"), its message key in ERROR_MESSAGES, the value returned, and what
\* became of the transaction and of the connection ("none" while no
\* connection was opened).
Return(d, v) ==
    [db |-> d, exc |-> "none", msg |-> "", ret |-> v, txn |-> "none", conn |-> "none"]
Raise(d, kind, m) ==
    [db |-> d, exc |-> kind, msg |-> m, ret |-> None, txn |-> "none", conn |-> "none"]
ValueError(d, m) == Raise(d, "ValueError", m)
StorageError(d) == Raise(d, "sqlite3.Error", "database_error")

\* mutant: the except branch re-raises without conn.rollback()
get_connection_no_rollback(old, body) ==
    IF body.exc = "none"
    THEN [body EXCEPT !.txn = "committed", !.conn = "closed"]
    ELSE [body EXCEPT !.txn = "rolledback", !.conn = "closed"]

\* mutant: no finally clause, conn.close() only follows the commit
get_connection_no_finally(old, body) ==
    IF body.exc = "none"
    THEN [body EXCEPT !.txn = "committed", !.conn = "closed"]
    ELSE [body EXCEPT !.db = old, !.txn = "rolledback", !.conn = "open"]

\* with get_connection() as conn: commit when the body ends normally, rollback
\* and re-raise when it raises; finally: conn.close() either way
get_connection(old, body) ==
    IF body.exc = "none"
    THEN [body EXCEPT !.txn = "committed", !.conn = "closed"]
    ELSE [body EXCEPT !.db = old, !.txn = "rolledback", !.conn = "closed"]

\* sqlite3.connect(DATABASE_FILE) and nothing else: PRAGMA foreign_keys keeps
\* its default, OFF, so the FOREIGN KEY clause of activities is not enforced
foreign_keys == FALSE

\* the FOREIGN KEY (project_id) REFERENCES projects(id) check of a write
FkViolation(d, project_id) == foreign_keys /\ project_id \notin DOMAIN d.projects

\* ------------------------------------------------------------------ schema
EmptyStore ==
    [projects |-> <<>>, activities |-> <<>>, settings |-> <<>>,
     seq |-> [projects |-> 0, activities |-> 0]]

\* mutant: INSERT OR REPLACE, the defaults overwrite what is stored
init_database_replace(d) ==
    get_connection(d,
        Return([d EXCEPT !.settings =
                    [k \in DOMAIN d.settings \cup
                           {"target_hours_per_day", "efficiency_threshold"} |->
                        IF k \in DOMAIN DEFAULT_SETTINGS THEN DEFAULT_SETTINGS[k]
                        ELSE d.settings[k]]],
               None))

\* CREATE TABLE IF NOT EXISTS ...; INSERT OR IGNORE the two default settings
init_database(d) ==
    get_connection(d,
        Return([d EXCEPT !.settings =
                    [k \in DOMAIN d.settings \cup
                           {"target_hours_per_day", "efficiency_threshold"} |->
                        IF k \in DOMAIN d.settings THEN d.settings[k]
                        ELSE DEFAULT_SETTINGS[k]]],
               None))

\* ------------------------------------------------------ project operations
\* mutant: the name is stored as given, not stripped
create_project_unstripped(d, name, description, estimated_hours, category, fault) ==
    IF name = <<>> \/ strip(name) = <<>>
    THEN ValueError(d, "project_name_required")
    ELSE IF estimated_hours <= 0
    THEN ValueError(d, "estimated_hours_invalid")
    ELSE get_connection(d,
        IF fault = 1 THEN StorageError(d)
        ELSE LET id == d.seq.projects + 1
                 row == [name |-> name, description |-> description,
                         estimated_hours |-> estimated_hours,
                         category |-> category, status |-> "active"]
             IN  Return([d EXCEPT !.projects = (id :> row) @@ d.projects,
                                  !.seq.projects = id],
                        id))

create_project(d, name, description, estimated_hours, category, fault) ==
    IF name = <<>> \/ strip(name) = <<>>
    THEN ValueError(d, "project_name_required")
    ELSE IF estimated_hours <= 0
    THEN ValueError(d, "estimated_hours_invalid")
    ELSE get_connection(d,
        IF fault = 1 THEN StorageError(d)
        ELSE LET id == d.seq.projects + 1
                 row == [name |-> strip(name), description |-> description,
                         estimated_hours |-> estimated_hours,
                         category |-> category, status |-> "active"]
             IN  Return([d EXCEPT !.projects = (id :> row) @@ d.projects,
                                  !.seq.projects = id],
                        id))

\* mutant: the LEFT JOIN loses its ON p.id = a.project_id condition
ProjectRow_unjoined(d, p) ==
    [id |-> p,
     name |-> d.projects[p].name,
     description |-> d.projects[p].description,
     estimated_hours |-> d.projects[p].estimated_hours,
     category |-> d.projects[p].category,
     status |-> d.projects[p].status,
     total_logged_hours |->
        COALESCE(SumDurations(d.activities, DOMAIN d.activities), 0)]

\* SELECT p.*, COALESCE(SUM(a.duration_hours), 0) ... LEFT JOIN ... GROUP BY p.id
ProjectRow(d, p) ==
    [id |-> p,
     name |-> d.projects[p].name,
     description |-> d.projects[p].description,
     estimated_hours |-> d.projects[p].estimated_hours,
     category |-> d.projects[p].category,
     status |-> d.projects[p].status,
     total_logged_hours |->
        COALESCE(SumDurations(d.activities,
                    {a \in DOMAIN d.activities : d.activities[a].project_id = p}),
                 0)]

\* the rows of get_all_projects, as a set (one row per project id)
get_all_projects(d) == {ProjectRow(d, p) : p \in DOMAIN d.projects}

get_active_projects(d) ==
    {ProjectRow(d, p) : p \in {q \in DOMAIN d.projects : d.projects[q].status = "active"}}

get_project_by_id(d, project_id) ==
    IF project_id \in DOMAIN d.projects THEN ProjectRow(d, project_id) ELSE None

\* mutant: estimated_hours is not validated
update_project_unvalidated(d, project_id, name, description, estimated_hours, category, status, fault) ==
    IF name = <<>> \/ strip(name) = <<>>
    THEN ValueError(d, "project_name_required")
    ELSE get_connection(d,
        IF fault = 1 THEN StorageError(d)
        ELSE IF project_id \in DOMAIN d.projects
        THEN Return([d EXCEPT !.projects[project_id] =
                        [name |-> strip(name), description |-> description,
                         estimated_hours |-> estimated_hours,
                         category |-> category, status |-> status]],
                    TRUE)
        ELSE Return(d, FALSE))

\* the status is stored as given: no test against STATUS_OPTIONS
update_project(d, project_id, name, description, estimated_hours, category, status, fault) ==
    IF name = <<>> \/ strip(name) = <<>>
    THEN ValueError(d, "project_name_required")
    ELSE IF estimated_hours <= 0
    THEN ValueError(d, "estimated_hours_invalid")
    ELSE get_connection(d,
        IF fault = 1 THEN StorageError(d)
        ELSE IF project_id \in DOMAIN d.projects
        THEN Return([d EXCEPT !.projects[project_id] =
                        [name |-> strip(name), description |-> description,
                         estimated_hours |-> estimated_hours,
                         category |-> category, status |-> status]],
                    TRUE)
        ELSE Return(d, FALSE))

\* mutant: UPDATE projects SET status = ? without the WHERE clause
update_project_status_everywhere(d, project_id, status, fault) ==
    get_connection(d,
        IF fault = 1 THEN StorageError(d)
        ELSE Return([d EXCEPT !.projects =
                        [q \in DOMAIN d.projects |-> [d.projects[q] EXCEPT !.status = status]]],
                    d.projects # <<>>))

update_project_status(d, project_id, status, fault) ==
    get_connection(d,
        IF fault = 1 THEN StorageError(d)
        ELSE IF project_id \in DOMAIN d.projects
        THEN Return([d EXCEPT !.projects[project_id].status = status], TRUE)
        ELSE Return(d, FALSE))

\* mutant: the project row is deleted without its activities
delete_activities_of_skipped(d, project_id) == d

\* DELETE FROM activities WHERE project_id = ?
delete_activities_of(d, project_id) ==
    [d EXCEPT !.activities =
        Without(d.activities,
                {a \in DOMAIN d.activities : d.activities[a].project_id = project_id})]

\* two statements in one transaction; rowcount is that of the second
delete_project(d, project_id, fault) ==
    get_connection(d,
        IF fault = 1 THEN StorageError(d)
        ELSE LET d1 == delete_activities_of(d, project_id)
             IN  IF fault = 2 THEN StorageError(d1)
                 ELSE Return([d1 EXCEPT !.projects = Without(d1.projects, {project_id})],
                             project_id \in DOMAIN d1.projects))

\* ----------------------------------------------------- activity operations
\* mutant: INTEGER PRIMARY KEY without AUTOINCREMENT, the new id is one more
\* than the largest id stored
create_activity_rowid(d, project_id, start_time, end_time, notes, fault) ==
    IF end_time # None /\ end_time[1] <= start_time
    THEN ValueError(d, "end_time_before_start")
    ELSE LET duration == IF end_time # None
                         THEN Some(duration_of(start_time, end_time[1]))
                         ELSE None
         IN  get_connection(d,
                IF fault = 1 \/ FkViolation(d, project_id) THEN StorageError(d)
                ELSE LET stored == DOMAIN d.activities \cup {0}
                         id == (CHOOSE i \in stored : \A j \in stored : j <= i) + 1
                         row == [project_id |-> project_id,
                                 start_time |-> adapt_datetime(start_time),
                                 end_time |-> adapt(end_time),
                                 duration_hours |-> duration,
                                 notes |-> notes]
                     IN  Return([d EXCEPT !.activities = (id :> row) @@ d.activities,
                                          !.seq.activities = id],
                                id))

\* mutant: end_time = start_time is accepted (< where the code has <=)
create_activity_nonstrict(d, project_id, start_time, end_time, notes, fault) ==
    IF end_time # None /\ end_time[1] < start_time
    THEN ValueError(d, "end_time_before_start")
    ELSE LET duration == IF end_time # None
                         THEN Some(duration_of(start_time, end_time[1]))
                         ELSE None
         IN  get_connection(d,
                IF fault = 1 \/ FkViolation(d, project_id) THEN StorageError(d)
                ELSE LET id == d.seq.activities + 1
                         row == [project_id |-> project_id,
                                 start_time |-> adapt_datetime(start_time),
                                 end_time |-> adapt(end_time),
                                 duration_hours |-> duration,
                                 notes |-> notes]
                     IN  Return([d EXCEPT !.activities = (id :> row) @@ d.activities,
                                          !.seq.activities = id],
                                id))

create_activity(d, project_id, start_time, end_time, notes, fault) ==
    IF end_time # None /\ end_time[1] <= start_time
    THEN ValueError(d, "end_time_before_start")
    ELSE LET duration == IF end_time # None
                         THEN Some(duration_of(start_time, end_time[1]))
                         ELSE None
         IN  get_connection(d,
                IF fault = 1 \/ FkViolation(d, project_id) THEN StorageError(d)
                ELSE LET id == d.seq.activities + 1
                         row == [project_id |-> project_id,
                                 start_time |-> adapt_datetime(start_time),
                                 end_time |-> adapt(end_time),
                                 duration_hours |-> duration,
                                 notes |-> notes]
                     IN  Return([d EXCEPT !.activities = (id :> row) @@ d.activities,
                                          !.seq.activities = id],
                                id))

\* SELECT a.*, p.name, p.category FROM activities a JOIN projects p ON ...
ActivityRow(d, a) ==
    [id |-> a,
     project_id |-> d.activities[a].project_id,
     start_time |-> d.activities[a].start_time,
     end_time |-> d.activities[a].end_time,
     duration_hours |-> d.activities[a].duration_hours,
     notes |-> d.activities[a].notes,
     project_name |-> d.projects[d.activities[a].project_id].name,
     project_category |-> d.projects[d.activities[a].project_id].category]

\* the activities that survive the inner JOIN with projects
Joined(d) == {a \in DOMAIN d.activities : d.activities[a].project_id \in DOMAIN d.projects}

get_all_activities(d) == {ActivityRow(d, a) : a \in Joined(d)}

get_activities_by_project(d, project_id) ==
    {ActivityRow(d, a) : a \in {b \in Joined(d) : d.activities[b].project_id = project_id}}

get_ongoing_activities(d) ==
    {ActivityRow(d, a) : a \in {b \in Joined(d) : d.activities[b].end_time = NULL}}

get_activity_by_id(d, activity_id) ==
    IF activity_id \in Joined(d) THEN ActivityRow(d, activity_id) ELSE None

\* mutant: the "already ended" check is left to the UPDATE's WHERE clause
end_activity_unchecked(d, activity_id, end_time, fault) ==
    get_connection(d,
        IF fault = 1 THEN StorageError(d)
        ELSE IF activity_id \notin DOMAIN d.activities
        THEN ValueError(d, "activity_not_found")
        ELSE LET row == d.activities[activity_id]
                 start_time == fromisoformat(row.start_time)
             IN  IF end_time <= start_time
                 THEN ValueError(d, "end_time_before_start")
                 ELSE IF fault = 2 THEN StorageError(d)
                 ELSE IF row.end_time # NULL THEN Return(d, FALSE)
                 ELSE Return([d EXCEPT !.activities[activity_id].end_time =
                                           adapt_datetime(end_time),
                                       !.activities[activity_id].duration_hours =
                                           Some(duration_of(start_time, end_time))],
                             TRUE))

\* mutant: end_time = start_time is accepted (< where the code has <=)
end_activity_nonstrict(d, activity_id, end_time, fault) ==
    get_connection(d,
        IF fault = 1 THEN StorageError(d)
        ELSE IF activity_id \notin DOMAIN d.activities
        THEN ValueError(d, "activity_not_found")
        ELSE LET row == d.activities[activity_id]
             IN  IF row.end_time # NULL
                 THEN ValueError(d, "activity_already_ended")
                 ELSE LET start_time == fromisoformat(row.start_time)
                      IN  IF end_time < start_time
                          THEN ValueError(d, "end_time_before_start")
                          ELSE IF fault = 2 THEN StorageError(d)
                          ELSE Return([d EXCEPT !.activities[activity_id].end_time =
                                                    adapt_datetime(end_time),
                                                !.activities[activity_id].duration_hours =
                                                    Some(duration_of(start_time, end_time))],
                                      TRUE))

\* mutant: ending an activity that has already ended reports success
end_activity_idempotent(d, activity_id, end_time, fault) ==
    get_connection(d,
        IF fault = 1 THEN StorageError(d)
        ELSE IF activity_id \notin DOMAIN d.activities
        THEN ValueError(d, "activity_not_found")
        ELSE LET row == d.activities[activity_id]
             IN  IF row.end_time # NULL
                 THEN Return(d, TRUE)
                 ELSE LET start_time == fromisoformat(row.start_time)
                      IN  IF end_time <= start_time
                          THEN ValueError(d, "end_time_before_start")
                          ELSE IF fault = 2 THEN StorageError(d)
                          ELSE Return([d EXCEPT !.activities[activity_id].end_time =
                                                    adapt_datetime(end_time),
                                                !.activities[activity_id].duration_hours =
                                                    Some(duration_of(start_time, end_time))],
                                      TRUE))

end_activity(d, activity_id, end_time, fault) ==
    get_connection(d,
        IF fault = 1 THEN StorageError(d)
        ELSE IF activity_id \notin DOMAIN d.activities
        THEN ValueError(d, "activity_not_found")
        ELSE LET row == d.activities[activity_id]
             IN  IF row.end_time # NULL
                 THEN ValueError(d, "activity_already_ended")
                 ELSE LET start_time == fromisoformat(row.start_time)
                      IN  IF end_time <= start_time
                          THEN ValueError(d, "end_time_before_start")
                          ELSE IF fault = 2 THEN StorageError(d)
                          ELSE \* UPDATE ... WHERE id = ? AND end_time IS NULL
                               Return([d EXCEPT !.activities[activity_id].end_time =
                                                    adapt_datetime(end_time),
                                                !.activities[activity_id].duration_hours =
                                                    Some(duration_of(start_time, end_time))],
                                      TRUE))

\* mutant: only end_time < start_time is refused
update_activity_nonstrict(d, activity_id, project_id, start_time, end_time, notes, fault) ==
    IF end_time # None /\ end_time[1] < start_time
    THEN ValueError(d, "end_time_before_start")
    ELSE LET duration == IF end_time # None
                         THEN Some(duration_of(start_time, end_time[1]))
                         ELSE None
         IN  get_connection(d,
                IF fault = 1 THEN StorageError(d)
                ELSE IF activity_id \in DOMAIN d.activities /\ FkViolation(d, project_id)
                THEN StorageError(d)
                ELSE IF activity_id \in DOMAIN d.activities
                THEN Return([d EXCEPT !.activities[activity_id] =
                                [project_id |-> project_id,
                                 start_time |-> adapt_datetime(start_time),
                                 end_time |-> adapt(end_time),
                                 duration_hours |-> duration,
                                 notes |-> notes]],
                            TRUE)
                ELSE Return(d, FALSE))

\* mutant: the stored duration_hours is kept instead of being recomputed
update_activity_stale_duration(d, activity_id, project_id, start_time, end_time, notes, fault) ==
    IF end_time # None /\ end_time[1] <= start_time
    THEN ValueError(d, "end_time_before_start")
    ELSE get_connection(d,
            IF fault = 1 THEN StorageError(d)
            ELSE IF activity_id \in DOMAIN d.activities
            THEN Return([d EXCEPT !.activities[activity_id] =
                            [project_id |-> project_id,
                             start_time |-> adapt_datetime(start_time),
                             end_time |-> adapt(end_time),
                             duration_hours |-> d.activities[activity_id].duration_hours,
                             notes |-> notes]],
                        TRUE)
            ELSE Return(d, FALSE))

update_activity(d, activity_id, project_id, start_time, end_time, notes, fault) ==
    IF end_time # None /\ end_time[1] <= start_time
    THEN ValueError(d, "end_time_before_start")
    ELSE LET duration == IF end_time # None
                         THEN Some(duration_of(start_time, end_time[1]))
                         ELSE None
         IN  get_connection(d,
                IF fault = 1 THEN StorageError(d)
                ELSE IF activity_id \in DOMAIN d.activities /\ FkViolation(d, project_id)
                THEN StorageError(d)
                ELSE IF activity_id \in DOMAIN d.activities
                THEN Return([d EXCEPT !.activities[activity_id] =
                                [project_id |-> project_id,
                                 start_time |-> adapt_datetime(start_time),
                                 end_time |-> adapt(end_time),
                                 duration_hours |-> duration,
                                 notes |-> notes]],
                            TRUE)
                ELSE Return(d, FALSE))

delete_activity(d, activity_id, fault) ==
    get_connection(d,
        IF fault = 1 THEN StorageError(d)
        ELSE Return([d EXCEPT !.activities = Without(d.activities, {activity_id})],
                    activity_id \in DOMAIN d.activities))

\* ----------------------------------------------------------------- actions
\* One call of a store operation by the single interactive caller: the store
\* becomes what the operation left. last records the call (operation and the
\* injected storage fault) and its outcome; removed is the set of activity rows
\* the call took out of the store.
Called(op, fault, res) ==
    [op |-> op, fault |-> fault, exc |-> res.exc, msg |-> res.msg, ret |-> res.ret,
     txn |-> res.txn, conn |-> res.conn,
     removed |-> DOMAIN db.activities \ DOMAIN res.db.activities]

Init ==
    /\ db = init_database(EmptyStore).db
    /\ last = [op |-> "init_database", fault |-> 0, exc |-> "none",
               msg |-> "", ret |-> None, txn |-> "committed", conn |-> "closed",
               removed |-> {}]

CreateProject(name, description, estimated_hours, category, fault) ==
    LET res == create_project(db, name, description, estimated_hours, category, fault)
    IN  /\ res.db.seq.projects <= MaxProjects
        /\ db' = res.db
        /\ last' = Called("create_project", fault, res)

UpdateProject(project_id, name, description, estimated_hours, category, status, fault) ==
    LET res == update_project(db, project_id, name, description, estimated_hours,
                              category, status, fault)
    IN  /\ db' = res.db
        /\ last' = Called("update_project", fault, res)

UpdateProjectStatus(project_id, status, fault) ==
    LET res == update_project_status(db, project_id, status, fault)
    IN  /\ db' = res.db
        /\ last' = Called("update_project_status", fault, res)

DeleteProject(project_id, fault) ==
    LET res == delete_project(db, project_id, fault)
    IN  /\ db' = res.db
        /\ last' = Called("delete_project", fault, res)

CreateActivity(project_id, start_time, end_time, notes, fault) ==
    LET res == create_activity(db, project_id, start_time, end_time, notes, fault)
    IN  /\ res.db.seq.activities <= MaxActivities
        /\ db' = res.db
        /\ last' = Called("create_activity", fault, res)

EndActivity(activity_id, end_time, fault) ==
    LET res == end_activity(db, activity_id, end_time, fault)
    IN  /\ db' = res.db
        /\ last' = Called("end_activity", fault, res)

UpdateActivity(activity_id, project_id, start_time, end_time, notes, fault) ==
    LET res == update_activity(db, activity_id, project_id, start_time, end_time,
                               notes, fault)
    IN  /\ db' = res.db
        /\ last' = Called("update_activity", fault, res)

DeleteActivity(activity_id, fault) ==
    LET res == delete_activity(db, activity_id, fault)
    IN  /\ db' = res.db
        /\ last' = Called("delete_activity", fault, res)

\* Storage faults (fault = k: the k-th statement of the operation raises
\* sqlite3.Error) are injected into the creating operations, into delete_project
\* and into end_activity.
Next ==
    \/ \E name \in NameInputs, hours \in HoursInputs, category \in CategoryInputs,
          fault \in 0..1 :
            CreateProject(name, <<>>, hours, category, fault)
    \/ \E p \in ProjectIds, name \in NameInputs, hours \in HoursInputs,
          category \in CategoryInputs, status \in StatusInputs :
            UpdateProject(p, name, <<>>, hours, category, status, 0)
    \/ \E p \in ProjectIds, status \in StatusInputs : UpdateProjectStatus(p, status, 0)
    \/ \E p \in ProjectIds, fault \in 0..2 : DeleteProject(p, fault)
    \/ \E p \in ProjectIds, s \in DateTimes, e \in OptDateTimes, notes \in NotesInputs,
          fault \in 0..1 :
            CreateActivity(p, s, e, notes, fault)
    \/ \E a \in ActivityIds, e \in DateTimes, fault \in 0..2 : EndActivity(a, e, fault)
    \/ \E a \in ActivityIds, p \in ProjectIds, s \in DateTimes, e \in OptDateTimes,
          notes \in NotesInputs :
            UpdateActivity(a, p, s, e, notes, 0)
    \/ \E a \in ActivityIds : DeleteActivity(a, 0)

Spec == Init /\ [][Next]_vars

\* The same store driven with a wider choice of project fields and a narrower
\* choice of activities (one start time, ongoing or one hour long).
NextProject ==
    \/ \E in \in ProjectInputs, fault \in 0..1 :
            CreateProject(in.name, <<>>, in.estimated_hours, in.category, fault)
    \/ \E p \in ProjectIds, in \in ProjectInputs, status \in ProjectStatusInputs :
            UpdateProject(p, in.name, <<>>, in.estimated_hours, in.category, status, 0)
    \/ \E p \in ProjectIds, status \in ProjectStatusInputs :
            UpdateProjectStatus(p, status, 0)
    \/ \E p \in ProjectIds, fault \in 0..2 : DeleteProject(p, fault)
    \/ \E p \in ProjectIds, e \in {None, Some(1)} : CreateActivity(p, 0, e, <<>>, 0)

SpecProject == Init /\ [][NextProject]_vars

\* ------------------------------------------------- numbers (src/utils)
\* A Python number is an exact fraction <<n, d>> in lowest terms with d > 0
\* (binary rounding of floats is not modelled); float("nan") is <<"nan">>; a
\* missing argument is None.
Abs(n) == IF n < 0 THEN -n ELSE n

RECURSIVE GCD(_, _)
GCD(a, b) == IF b = 0 THEN a ELSE GCD(b, a % b)

Q(n, d) ==
    LET g == GCD(Abs(n), Abs(d))
        s == IF d < 0 THEN -1 ELSE 1
    IN  <<(s * n) \div g, (s * d) \div g>>

nan == <<"nan">>
isnan(x) == Len(x) = 1
Zero == Q(0, 1)
One == Q(1, 1)
Hundred == Q(100, 1)

\* <, <=, > of two numbers: every comparison with nan is False
lt(a, b) == ~isnan(a) /\ ~isnan(b) /\ a[1] * b[2] < b[1] * a[2]
le(a, b) == ~isnan(a) /\ ~isnan(b) /\ a[1] * b[2] <= b[1] * a[2]
gt(a, b) == lt(b, a)

\* a / b and a * b (b is never zero where the code divides)
truediv(a, b) == IF isnan(a) \/ isnan(b) THEN nan ELSE Q(a[1] * b[2], a[2] * b[1])
mul(a, b) == IF isnan(a) \/ isnan(b) THEN nan ELSE Q(a[1] * b[1], a[2] * b[2])
add(a, b) == IF isnan(a) \/ isnan(b) THEN nan ELSE Q(a[1] * b[2] + b[1] * a[2], a[2] * b[2])
sub(a, b) == IF isnan(a) \/ isnan(b) THEN nan ELSE Q(a[1] * b[2] - b[1] * a[2], a[2] * b[2])

\* the builtins max(a, b) and min(a, b): the first argument wins unless the
\* second compares strictly greater (smaller)
py_max(a, b) == IF gt(b, a) THEN b ELSE a
py_min(a, b) == IF lt(b, a) THEN b ELSE a

\* what a pure function hands back: its value, or the exception it raised
Value(v) == [exc |-> "none", ret |-> v]
TypeError == [exc |-> "TypeError", ret |-> None]

EFFICIENCY_THRESHOLDS ==
    [critical |-> Q(50, 1), warning |-> Q(80, 1), good |-> Q(100, 1), excellent |-> Q(100, 1)]

\* ------------------------------------------ metrics (utils/calculations.py)
\* mutant: the result is left as a ratio, not multiplied by 100
calculate_efficiency_ratio(logged_hours, estimated_hours) ==
    IF logged_hours = None THEN Value(Zero)
    ELSE IF isnan(logged_hours) THEN Value(Zero)
    ELSE IF lt(logged_hours, Zero) THEN Value(Zero)
    ELSE IF estimated_hours = None THEN Value(Zero)
    ELSE IF isnan(estimated_hours) THEN Value(Zero)
    ELSE IF le(estimated_hours, Zero) THEN Value(Zero)
    ELSE Value(truediv(logged_hours, estimated_hours))

calculate_efficiency(logged_hours, estimated_hours) ==
    IF logged_hours = None THEN Value(Zero)
    ELSE IF isnan(logged_hours) THEN Value(Zero)
    ELSE IF lt(logged_hours, Zero) THEN Value(Zero)
    ELSE IF estimated_hours = None THEN Value(Zero)
    ELSE IF isnan(estimated_hours) THEN Value(Zero)
    ELSE IF le(estimated_hours, Zero) THEN Value(Zero)
    ELSE Value(mul(truediv(logged_hours, estimated_hours), Hundred))

\* mutant: the warning band is closed at its upper end
get_efficiency_level_closed(efficiency) ==
    IF efficiency = None THEN TypeError
    ELSE IF lt(efficiency, EFFICIENCY_THRESHOLDS.critical) THEN Value("critical")
    ELSE IF le(efficiency, EFFICIENCY_THRESHOLDS.warning) THEN Value("warning")
    ELSE IF le(efficiency, EFFICIENCY_THRESHOLDS.good) THEN Value("good")
    ELSE Value("excellent")

\* None < 50 raises TypeError; nan fails every comparison and falls to the else
get_efficiency_level(efficiency) ==
    IF efficiency = None THEN TypeError
    ELSE IF lt(efficiency, EFFICIENCY_THRESHOLDS.critical) THEN Value("critical")
    ELSE IF lt(efficiency, EFFICIENCY_THRESHOLDS.warning) THEN Value("warning")
    ELSE IF le(efficiency, EFFICIENCY_THRESHOLDS.good) THEN Value("good")
    ELSE Value("excellent")

\* no None / nan test here: None <= 0 and None < 0 raise TypeError, and a nan
\* passes both comparisons, the division and the min / max clamp
calculate_progress(logged_hours, estimated_hours) ==
    IF estimated_hours = None THEN TypeError
    ELSE IF le(estimated_hours, Zero) THEN Value(Zero)
    ELSE IF logged_hours = None THEN TypeError
    ELSE IF lt(logged_hours, Zero) THEN Value(Zero)
    ELSE LET progress == truediv(logged_hours, estimated_hours)
         IN  Value(py_min(py_max(progress, Zero), One))

\* ------------------------------------- numpy / scipy.stats on a 1-d array
RECURSIVE np_sum(_)
np_sum(arr) == IF arr = <<>> THEN Zero ELSE add(Head(arr), np_sum(Tail(arr)))

np_mean(arr) == truediv(np_sum(arr), Q(Len(arr), 1))

\* x put in its place in an ascending sequence
RECURSIVE insert_sorted(_, _)
insert_sorted(x, s) ==
    IF s = <<>> THEN <<x>>
    ELSE IF le(x, Head(s)) THEN <<x>> \o s
    ELSE <<Head(s)>> \o insert_sorted(x, Tail(s))

RECURSIVE np_sort(_)
np_sort(arr) == IF arr = <<>> THEN <<>> ELSE insert_sorted(Head(arr), np_sort(Tail(arr)))

np_min(arr) == np_sort(arr)[1]
np_max(arr) == np_sort(arr)[Len(arr)]
np_ptp(arr) == sub(np_max(arr), np_min(arr))

\* np.percentile, default linear interpolation: position (n - 1) * q / 100 in
\* the sorted array, between its two neighbours
np_percentile(arr, q) ==
    LET s == np_sort(arr)
        pos == (Len(arr) - 1) * q
        lo == pos \div 100
        frac == Q(pos % 100, 100)
    IN  IF lo + 1 >= Len(arr) THEN s[Len(arr)]
        ELSE add(s[lo + 1], mul(frac, sub(s[lo + 2], s[lo + 1])))

np_median(arr) == np_percentile(arr, 50)

\* k-th central moment, mean((x - mean) ** k)
RECURSIVE power(_, _)
power(x, k) == IF k = 0 THEN One ELSE mul(x, power(x, k - 1))

moment(arr, k) ==
    LET m == np_mean(arr)
    IN  np_mean([i \in 1..Len(arr) |-> power(sub(arr[i], m), k)])

\* np.std = sqrt(moment 2): a square root that is not 0 is kept as <<"sqrt", n, d>>
np_std(arr) ==
    LET m2 == moment(arr, 2)
    IN  IF m2 = Zero THEN Zero ELSE <<"sqrt", m2[1], m2[2]>>

\* stats.skew = m3 / m2 ** 1.5 (nan for constant data); a value that is not 0
\* is kept as <<"m3/m2^1.5", m3, m2>>
stats_skew(arr) ==
    LET m2 == moment(arr, 2)
        m3 == moment(arr, 3)
    IN  IF m2 = Zero THEN nan
        ELSE IF m3 = Zero THEN Zero
        ELSE <<"m3/m2^1.5", m3[1], m3[2], m2[1], m2[2]>>

\* stats.kurtosis = m4 / m2 ** 2 - 3 (Fisher; nan for constant data)
stats_kurtosis(arr) ==
    LET m2 == moment(arr, 2)
        m4 == moment(arr, 4)
    IN  IF m2 = Zero THEN nan
        ELSE sub(truediv(m4, mul(m2, m2)), Q(3, 1))

\* mutant: skewness and kurtosis are computed whatever the number of samples
calculate_statistics_any_length(data) ==
    IF data = None \/ Len(data) = 0
    THEN Value([count |-> 0, mean |-> Zero, median |-> Zero, std |-> Zero,
                min |-> Zero, max |-> Zero, range |-> Zero, q1 |-> Zero, q3 |-> Zero,
                iqr |-> Zero, skewness |-> Zero, kurtosis |-> Zero])
    ELSE LET arr == data
             q1 == np_percentile(arr, 25)
             q3 == np_percentile(arr, 75)
             skewness == stats_skew(arr)
             kurtosis == stats_kurtosis(arr)
         IN  Value([count |-> Len(arr), mean |-> np_mean(arr), median |-> np_median(arr),
                    std |-> np_std(arr), min |-> np_min(arr), max |-> np_max(arr),
                    range |-> np_ptp(arr), q1 |-> q1, q3 |-> q3, iqr |-> sub(q3, q1),
                    skewness |-> skewness, kurtosis |-> kurtosis])

calculate_statistics(data) ==
    IF data = None \/ Len(data) = 0
    THEN Value([count |-> 0, mean |-> Zero, median |-> Zero, std |-> Zero,
                min |-> Zero, max |-> Zero, range |-> Zero, q1 |-> Zero, q3 |-> Zero,
                iqr |-> Zero, skewness |-> Zero, kurtosis |-> Zero])
    ELSE LET arr == data
             q1 == np_percentile(arr, 25)
             q3 == np_percentile(arr, 75)
             skewness == IF Len(arr) >= 3 THEN stats_skew(arr) ELSE Zero
             kurtosis == IF Len(arr) >= 3 THEN stats_kurtosis(arr) ELSE Zero
         IN  Value([count |-> Len(arr), mean |-> np_mean(arr), median |-> np_median(arr),
                    std |-> np_std(arr), min |-> np_min(arr), max |-> np_max(arr),
                    range |-> np_ptp(arr), q1 |-> q1, q3 |-> q3, iqr |-> sub(q3, q1),
                    skewness |-> skewness, kurtosis |-> kurtosis])

\* ------------------------------------------- validators (utils/validators.py)
CATEGORIES ==
    {"Pengolahan Data Seismik", "Interpretasi Data Gravity", "Pemodelan Resistivitas",
     "Analisis Well Log", "Pengukuran Lapangan", "Penulisan Laporan",
     "Meeting/Diskusi", "Lainnya"}

VALIDATION_RULES ==
    [project_name_min_length |-> 3, project_name_max_length |-> 100,
     estimated_hours_min |-> Q(1, 2), estimated_hours_max |-> Q(1000, 1),
     notes_max_length |-> 500]

\* a validator returns (is_valid, error_message); the message is given by its
\* key in ERROR_MESSAGES, or literally where the code has a literal
validate_project_name(name) ==
    IF name = <<>> \/ strip(name) = <<>>
    THEN <<FALSE, "project_name_required">>
    ELSE IF Len(strip(name)) < VALIDATION_RULES.project_name_min_length
    THEN <<FALSE, "project_name_too_short">>
    ELSE IF Len(strip(name)) > VALIDATION_RULES.project_name_max_length
    THEN <<FALSE, "project_name_too_long">>
    ELSE <<TRUE, "">>

\* a nan fails both comparisons and is accepted
validate_estimated_hours(hours) ==
    IF lt(hours, VALIDATION_RULES.estimated_hours_min)
       \/ gt(hours, VALIDATION_RULES.estimated_hours_max)
    THEN <<FALSE, "estimated_hours_invalid">>
    ELSE <<TRUE, "">>

validate_category(category) ==
    IF category \notin CATEGORIES THEN <<FALSE, "Kategori tidak valid!">> ELSE <<TRUE, "">>

validate_status(status) ==
    IF status \notin STATUS_OPTIONS THEN <<FALSE, "Status tidak valid!">> ELSE <<TRUE, "">>

\* errors.append(error) when the validator did not pass
append_if_invalid(errors, result) == IF result[1] THEN errors ELSE Append(errors, result[2])

\* mutant: validation stops at the first field that fails
validate_project_first_only(name, estimated_hours, category) ==
    LET e1 == append_if_invalid(<<>>, validate_project_name(name))
        e2 == IF e1 # <<>> THEN e1
              ELSE append_if_invalid(e1, validate_estimated_hours(estimated_hours))
        e3 == IF e2 # <<>> THEN e2
              ELSE append_if_invalid(e2, validate_category(category))
    IN  Value(<<Len(e3) = 0, e3>>)

validate_project(name, estimated_hours, category) ==
    LET e1 == append_if_invalid(<<>>, validate_project_name(name))
        e2 == append_if_invalid(e1, validate_estimated_hours(estimated_hours))
        e3 == append_if_invalid(e2, validate_category(category))
    IN  Value(<<Len(e3) = 0, e3>>)

\* ------------------------------------------------ calls into src/utils
\* The functions of src/utils are pure: a call leaves the store alone and last
\* records the function, its arguments and what it handed back.
HoursArgs == {None, nan} \cup {Q(n, 2) : n \in -1..MaxHalfHours}

EfficiencyArgs ==
    {None, nan, Q(-1, 1), Zero}
    \cup {add(EFFICIENCY_THRESHOLDS[k], Q(w, 100)) :
            k \in DOMAIN EFFICIENCY_THRESHOLDS, w \in -LevelWindow..LevelWindow}
    \cup {calculate_efficiency(l, e).ret : l, e \in HoursArgs}

\* names whose stripped length lies on either side of each length rule, and
\* names that are empty or blank
Repeat(c, n) == [i \in 1..n |-> c]

ProjectNameArgs ==
    {<<>>, <<SP>>, <<SP, "a", "b", SP>>}
    \cup {Repeat("x", VALIDATION_RULES.project_name_min_length + k) : k \in {-1, 0}}
    \cup {Repeat("x", VALIDATION_RULES.project_name_max_length + k) : k \in {0, 1}}

EstimatedHoursArgs ==
    {nan, Zero, Q(20, 1)}
    \cup {add(VALIDATION_RULES.estimated_hours_min, Q(k, 4)) : k \in {-1, 0}}
    \cup {add(VALIDATION_RULES.estimated_hours_max, Q(k, 1)) : k \in {0, 1}}

CategoryArgs == {"Lainnya", "Pengolahan Data Seismik", "Invalid", ""}

\* durations of completed activities, in whole hours; None for no list at all
RECURSIVE Lists(_, _)
Lists(S, n) ==
    IF n = 0 THEN {<<>>}
    ELSE Lists(S, n - 1) \cup {Append(l, x) : l \in Lists(S, n - 1), x \in S}

SampleArgs == {None} \cup Lists({Q(k, 1) : k \in 1..MaxDuration}, MaxSamples)

Applied(op, args, res) == [op |-> op, args |-> args, exc |-> res.exc, ret |-> res.ret]

CalculateEfficiency(logged_hours, estimated_hours) ==
    /\ last' = Applied("calculate_efficiency", <<logged_hours, estimated_hours>>,
                       calculate_efficiency(logged_hours, estimated_hours))
    /\ UNCHANGED db

GetEfficiencyLevel(efficiency) ==
    /\ last' = Applied("get_efficiency_level", <<efficiency>>,
                       get_efficiency_level(efficiency))
    /\ UNCHANGED db

CalculateProgress(logged_hours, estimated_hours) ==
    /\ last' = Applied("calculate_progress", <<logged_hours, estimated_hours>>,
                       calculate_progress(logged_hours, estimated_hours))
    /\ UNCHANGED db

ValidateProject(name, estimated_hours, category) ==
    /\ last' = Applied("validate_project", <<name, estimated_hours, category>>,
                       validate_project(name, estimated_hours, category))
    /\ UNCHANGED db

CalculateStatistics(data) ==
    /\ last' = Applied("calculate_statistics", <<data>>, calculate_statistics(data))
    /\ UNCHANGED db

NextUtils ==
    \/ \E l \in HoursArgs, e \in HoursArgs : CalculateEfficiency(l, e)
    \/ \E x \in EfficiencyArgs : GetEfficiencyLevel(x)
    \/ \E l \in HoursArgs, e \in HoursArgs : CalculateProgress(l, e)
    \/ \E name \in ProjectNameArgs, hours \in EstimatedHoursArgs, category \in CategoryArgs :
            ValidateProject(name, hours, category)
    \/ \E data \in SampleArgs : CalculateStatistics(data)

SpecUtils == Init /\ [][NextUtils]_vars

\* ------------------------------------------- activity lifecycle, with history
\* The same activity operations with the call's history kept beside its
\* outcome: id is the activity the call was made on (0 for a call that names
\* none), ended the ids on which end_activity has ever succeeded, sealed those
\* of them whose end_time no update_activity has cleared since. Activities are
\* logged against stored projects, as the activity page does.
Tracked(op, fault, res, id, ended, sealed) ==
    Called(op, fault, res) @@ [id |-> id, ended |-> ended, sealed |-> sealed]

InitLifecycle ==
    /\ db = init_database(EmptyStore).db
    /\ last = Tracked("init_database", 0, init_database(EmptyStore), 0, {}, {})

TrackedCreateProject(name, description, estimated_hours, category) ==
    LET res == create_project(db, name, description, estimated_hours, category, 0)
    IN  /\ res.db.seq.projects <= MaxProjects
        /\ db' = res.db
        /\ last' = Tracked("create_project", 0, res, 0, last.ended, last.sealed)

TrackedCreateActivity(project_id, start_time, end_time, notes) ==
    LET res == create_activity(db, project_id, start_time, end_time, notes, 0)
    IN  /\ project_id \in DOMAIN db.projects
        /\ res.db.seq.activities <= MaxActivities
        /\ db' = res.db
        /\ last' = Tracked("create_activity", 0, res, 0, last.ended, last.sealed)

TrackedEndActivity(activity_id, end_time, fault) ==
    LET res == end_activity(db, activity_id, end_time, fault)
        done == IF res.exc = "none" THEN {activity_id} ELSE {}
    IN  /\ db' = res.db
        /\ last' = Tracked("end_activity", fault, res, activity_id,
                           last.ended \cup done, last.sealed \cup done)

TrackedUpdateActivity(activity_id, project_id, start_time, end_time, notes) ==
    LET res == update_activity(db, activity_id, project_id, start_time, end_time, notes, 0)
        reopened == IF res.exc = "none" /\ res.ret = TRUE /\ end_time = None
                    THEN {activity_id} ELSE {}
    IN  /\ project_id \in DOMAIN db.projects
        /\ db' = res.db
        /\ last' = Tracked("update_activity", 0, res, activity_id,
                           last.ended, last.sealed \ reopened)

TrackedDeleteActivity(activity_id) ==
    LET res == delete_activity(db, activity_id, 0)
    IN  /\ db' = res.db
        /\ last' = Tracked("delete_activity", 0, res, activity_id,
                           last.ended, last.sealed)

NextLifecycle ==
    \/ TrackedCreateProject(<<"a">>, <<>>, 1, "Lainnya")
    \/ \E p \in ProjectIds, s \in DateTimes, e \in OptDateTimes :
            TrackedCreateActivity(p, s, e, <<>>)
    \/ \E a \in ActivityIds, e \in DateTimes, fault \in 0..2 :
            TrackedEndActivity(a, e, fault)
    \/ \E a \in ActivityIds, p \in ProjectIds, s \in DateTimes, e \in OptDateTimes :
            TrackedUpdateActivity(a, p, s, e, <<>>)
    \/ \E a \in ActivityIds : TrackedDeleteActivity(a)

SpecLifecycle == InitLifecycle /\ [][NextLifecycle]_vars

\* ---------------------------------------------------------------- settings
SettingKeys == {"target_hours_per_day", "efficiency_threshold", "default_work_start_hour"}
SettingValues == {"8.0", "6.5", "0.7"}

\* INSERT OR REPLACE INTO settings (key, value): one row per key
set_setting(d, key, value, fault) ==
    get_connection(d,
        IF fault = 1 THEN StorageError(d)
        ELSE Return([d EXCEPT !.settings = (key :> value) @@ d.settings], TRUE))

get_setting(d, key) == IF key \in DOMAIN d.settings THEN d.settings[key] ELSE None

\* os.remove(DATABASE_FILE): the next connection opens a new, empty file
remove_database_file(d) == EmptyStore

\* a later call of init_database: every start of the program imports database
InitDatabase ==
    LET res == init_database(db)
    IN  /\ db' = res.db
        /\ last' = Called("init_database", 0, res)

SetSetting(key, value, fault) ==
    LET res == set_setting(db, key, value, fault)
    IN  /\ db' = res.db
        /\ last' = Called("set_setting", fault, res)

\* _reset_database of the settings page: remove the file, then init_database()
ResetDatabase ==
    LET res == init_database(remove_database_file(db))
    IN  /\ db' = res.db
        /\ last' = Called("reset_database", 0, res)

NextSettings ==
    \/ InitDatabase
    \/ \E k \in SettingKeys, v \in SettingValues, fault \in 0..1 : SetSetting(k, v, fault)
    \/ ResetDatabase
    \/ CreateProject(<<"a">>, <<>>, 1, "Lainnya", 0)
    \/ \E p \in ProjectIds, e \in {None, Some(1)} : CreateActivity(p, 0, e, <<>>, 0)

SpecSettings == Init /\ [][NextSettings]_vars

\* ------------------------------------------------------ overall statistics
\* a datetime counts hours, DATE(start_time) is the day it falls on
HoursPerDay == 24
DATE(text) == fromisoformat(text) \div HoursPerDay

\* utils.calculate_average_per_day
calculate_average_per_day(total_hours, active_days) ==
    IF active_days <= 0 THEN Value(Zero)
    ELSE Value(truediv(total_hours, Q(active_days, 1)))

\* mutant: COUNT(DATE(start_time)), days are counted once per activity
get_overall_statistics_per_activity(d, fault) ==
    get_connection(d,
        IF fault = 1 THEN StorageError(d)
        ELSE LET acts == d.activities
                 completed == {a \in DOMAIN acts : acts[a].duration_hours # NULL}
                 total_hours == COALESCE(SumDurations(acts, DOMAIN acts), 0)
                 active_days == Cardinality(DOMAIN acts)
             IN  Return(d,
                    [total_projects |-> Cardinality(DOMAIN d.projects),
                     active_projects |->
                        Cardinality({p \in DOMAIN d.projects : d.projects[p].status = "active"}),
                     total_activities |-> Cardinality(DOMAIN acts),
                     total_hours |-> total_hours,
                     avg_duration |->
                        IF completed = {} THEN Zero
                        ELSE Q(SumDurations(acts, completed)[1], Cardinality(completed)),
                     ongoing_activities |->
                        Cardinality({a \in DOMAIN acts : acts[a].end_time = NULL}),
                     active_days |-> active_days,
                     avg_hours_per_day |->
                        IF active_days > 0 THEN Q(total_hours, active_days) ELSE Zero]))

\* seven SELECTs on one connection, then total_hours / active_days
get_overall_statistics(d, fault) ==
    get_connection(d,
        IF fault = 1 THEN StorageError(d)
        ELSE LET acts == d.activities
                 completed == {a \in DOMAIN acts : acts[a].duration_hours # NULL}
                 total_hours == COALESCE(SumDurations(acts, DOMAIN acts), 0)
                 active_days == Cardinality({DATE(acts[a].start_time) : a \in DOMAIN acts})
             IN  Return(d,
                    [total_projects |-> Cardinality(DOMAIN d.projects),
                     active_projects |->
                        Cardinality({p \in DOMAIN d.projects : d.projects[p].status = "active"}),
                     total_activities |-> Cardinality(DOMAIN acts),
                     total_hours |-> total_hours,
                     avg_duration |->
                        IF completed = {} THEN Zero
                        ELSE Q(SumDurations(acts, completed)[1], Cardinality(completed)),
                     ongoing_activities |->
                        Cardinality({a \in DOMAIN acts : acts[a].end_time = NULL}),
                     active_days |-> active_days,
                     avg_hours_per_day |->
                        IF active_days > 0 THEN Q(total_hours, active_days) ELSE Zero]))

GetOverallStatistics(fault) ==
    LET res == get_overall_statistics(db, fault)
    IN  /\ db' = res.db
        /\ last' = Called("get_overall_statistics", fault, res)

\* The store filled with activities in the first two hours of each of the days
\* 0..MaxDay, then queried.
NextStatistics ==
    \/ CreateProject(<<"a">>, <<>>, 1, "Lainnya", 0)
    \/ \E p \in ProjectIds : DeleteProject(p, 0)
    \/ \E p \in ProjectIds, day \in 0..MaxDay, h \in 0..1,
          e \in {None} \cup {Some(d * HoursPerDay + g) : d \in 0..MaxDay, g \in 0..1} :
            CreateActivity(p, day * HoursPerDay + h, e, <<>>, 0)
    \/ \E fault \in 0..1 : GetOverallStatistics(fault)

SpecStatistics == Init /\ [][NextStatistics]_vars

\* ------------------------------------------- interleaved end_activity calls
\* Each caller runs end_activity on a connection of its own, one statement at
\* a time; db is the committed content of the file. last holds the position
\* and the locals of every caller, and lock the caller whose transaction has
\* written and not yet committed (0: nobody).
Callers == {1, 2}

IdleCall == [pc |-> "idle", id |-> 0, end_time |-> 0, row |-> None, duration |-> 0,
             rowcount |-> 0, exc |-> "none", msg |-> "", ret |-> None]

Stepped(op, c, lock, call) ==
    [op |-> op, exc |-> call[c].exc, caller |-> c, lock |-> lock, call |-> call]

InitRace ==
    /\ db = init_database(EmptyStore).db
    /\ last = [op |-> "init_database", exc |-> "none", caller |-> 0, lock |-> 0,
               call |-> [c \in Callers |-> IdleCall]]

\* mutant: UPDATE ... WHERE id = ?, an ended activity is overwritten
end_activity_update_unguarded(d, activity_id, end_time, duration) ==
    IF activity_id \in DOMAIN d.activities
    THEN [db |-> [d EXCEPT !.activities[activity_id].end_time = adapt_datetime(end_time),
                           !.activities[activity_id].duration_hours = Some(duration)],
          rowcount |-> 1]
    ELSE [db |-> d, rowcount |-> 0]

\* UPDATE activities SET end_time = ?, duration_hours = ?
\* WHERE id = ? AND end_time IS NULL
end_activity_update(d, activity_id, end_time, duration) ==
    IF activity_id \in DOMAIN d.activities /\ d.activities[activity_id].end_time = NULL
    THEN [db |-> [d EXCEPT !.activities[activity_id].end_time = adapt_datetime(end_time),
                           !.activities[activity_id].duration_hours = Some(duration)],
          rowcount |-> 1]
    ELSE [db |-> d, rowcount |-> 0]

\* the exception leaves the with block: rollback, close, re-raise
Failed(call, kind, m) ==
    [call EXCEPT !.pc = "done", !.exc = kind, !.msg = m, !.ret = None]

\* a project or an ongoing activity is stored by a third party while no
\* transaction holds the write lock
RaceCreateProject ==
    LET res == create_project(db, <<"a">>, <<>>, 1, "Lainnya", 0)
    IN  /\ last.lock = 0
        /\ res.db.seq.projects <= MaxProjects
        /\ db' = res.db
        /\ last' = [last EXCEPT !.op = "create_project", !.exc = res.exc, !.caller = 0]

RaceCreateActivity(project_id, start_time) ==
    LET res == create_activity(db, project_id, start_time, None, <<>>, 0)
    IN  /\ last.lock = 0
        /\ project_id \in DOMAIN db.projects
        /\ res.db.seq.activities <= MaxActivities
        /\ db' = res.db
        /\ last' = [last EXCEPT !.op = "create_activity", !.exc = res.exc, !.caller = 0]

\* with get_connection() as conn: cursor = conn.cursor()
BeginEndActivity(c, activity_id, end_time) ==
    /\ last.call[c].pc \in {"idle", "done"}
    /\ db' = db
    /\ last' = Stepped("end_activity.connect", c, last.lock,
                       [last.call EXCEPT ![c] = [IdleCall EXCEPT !.pc = "connected",
                                                                !.id = activity_id,
                                                                !.end_time = end_time]])

\* SELECT start_time, end_time FROM activities WHERE id = ?; fetchone()
SelectRow(c) ==
    LET call == last.call[c]
        row == IF call.id \in DOMAIN db.activities
               THEN Some([start_time |-> db.activities[call.id].start_time,
                          end_time |-> db.activities[call.id].end_time])
               ELSE None
    IN  /\ call.pc = "connected"
        /\ db' = db
        /\ last' = Stepped("end_activity.select", c, last.lock,
                           [last.call EXCEPT ![c] = [call EXCEPT !.pc = "fetched",
                                                                 !.row = row]])

\* the three checks on the fetched row, then the duration
CheckRow(c) ==
    LET call == last.call[c]
        checked ==
            IF call.row = None THEN Failed(call, "ValueError", "activity_not_found")
            ELSE IF call.row[1].end_time # NULL
            THEN Failed(call, "ValueError", "activity_already_ended")
            ELSE LET start_time == fromisoformat(call.row[1].start_time)
                 IN  IF call.end_time <= start_time
                     THEN Failed(call, "ValueError", "end_time_before_start")
                     ELSE [call EXCEPT !.pc = "checked",
                                       !.duration = duration_of(start_time, call.end_time)]
    IN  /\ call.pc = "fetched"
        /\ db' = db
        /\ last' = Stepped("end_activity.check", c, last.lock,
                           [last.call EXCEPT ![c] = checked])

\* cursor.execute(UPDATE ...): the statement takes the write lock and sees the
\* committed rows. While another transaction holds the lock the statement
\* waits, and gives up with "database is locked" when the wait times out.
UpdateRow(c) ==
    LET call == last.call[c]
    IN  /\ call.pc = "checked"
        /\ db' = db
        /\ IF last.lock = 0
           THEN last' = Stepped("end_activity.update", c, c,
                    [last.call EXCEPT ![c] =
                        [call EXCEPT !.pc = "updated",
                                     !.rowcount = end_activity_update(db, call.id,
                                                     call.end_time, call.duration).rowcount]])
           ELSE last' = Stepped("end_activity.update", c, last.lock,
                    [last.call EXCEPT ![c] = Failed(call, "sqlite3.Error", "database_error")])

\* return cursor.rowcount > 0, then conn.commit(): the commit waits for the
\* readers whose SELECT is still open, and times out the same way
CommitEnd(c, timeout) ==
    LET call == last.call[c]
        res == end_activity_update(db, call.id, call.end_time, call.duration)
    IN  /\ call.pc = "updated"
        /\ last.lock = c
        /\ IF timeout
           THEN /\ \E o \in Callers \ {c} : last.call[o].pc \in {"fetched", "checked"}
                /\ db' = db
                /\ last' = Stepped("end_activity.commit", c, 0,
                        [last.call EXCEPT ![c] = Failed(call, "sqlite3.Error", "database_error")])
           ELSE /\ db' = res.db
                /\ last' = Stepped("end_activity.commit", c, 0,
                        [last.call EXCEPT ![c] = [call EXCEPT !.pc = "done",
                                                              !.ret = (call.rowcount > 0)]])

NextRace ==
    \/ RaceCreateProject
    \/ \E p \in ProjectIds, s \in DateTimes : RaceCreateActivity(p, s)
    \/ \E c \in Callers, a \in ActivityIds, e \in DateTimes : BeginEndActivity(c, a, e)
    \/ \E c \in Callers : SelectRow(c)
    \/ \E c \in Callers : CheckRow(c)
    \/ \E c \in Callers : UpdateRow(c)
    \/ \E c \in Callers, timeout \in BOOLEAN : CommitEnd(c, timeout)

SpecRace == InitRace /\ [][NextRace]_vars

\* ------------------------------------------------------- activities page
\* mutant: an end_time equal to start_time is accepted
validate_time_range_nonstrict(start_time, end_time) ==
    IF end_time = None THEN <<TRUE, "">>
    ELSE IF end_time[1] < start_time THEN <<FALSE, "end_time_before_start">>
    ELSE <<TRUE, "">>

validate_time_range(start_time, end_time) ==
    IF end_time = None THEN <<TRUE, "">>
    ELSE IF end_time[1] <= start_time THEN <<FALSE, "end_time_before_start">>
    ELSE <<TRUE, "">>

validate_notes(notes) ==
    IF notes # <<>> /\ Len(notes) > VALIDATION_RULES.notes_max_length
    THEN <<FALSE, "notes_too_long">>
    ELSE <<TRUE, "">>

\* re.sub(r'\s+', ' ', text): every run of spaces becomes one space; the two
\* halves are collapsed and joined, dropping a space doubled at the seam
RECURSIVE collapse(_)
collapse(s) ==
    IF \A i \in 1..(Len(s) - 1) : ~(s[i] = SP /\ s[i + 1] = SP) THEN s
    ELSE LET half == Len(s) \div 2
             left == collapse(SubSeq(s, 1, half))
             right == collapse(SubSeq(s, half + 1, Len(s)))
         IN  IF left[Len(left)] = SP /\ right[1] = SP
             THEN left \o Tail(right)
             ELSE left \o right

sanitize_string(text) == IF text = <<>> THEN <<>> ELSE collapse(strip(text))

\* what the helper leaves behind: the store as the call left it and the
\* message shown with st.error or st.success; the helper itself raises nothing
st_message(res, kind, m) == [res EXCEPT !.exc = "none", !.msg = m, !.ret = kind]

_start_activity(d, project_id, start_time, notes) ==
    LET clean == sanitize_string(notes)
        checked == validate_notes(clean)
        res == create_activity(d, project_id, start_time, None, clean, 0)
    IN  IF ~checked[1] THEN st_message(Return(d, None), "st.error", checked[2])
        ELSE IF res.exc = "none" THEN st_message(res, "st.success", "activity_started")
        ELSE st_message(res, "st.error", "database_error")

_end_activity(d, activity_id, end_time, start_time) ==
    LET checked == validate_time_range(start_time, Some(end_time))
        res == end_activity(d, activity_id, end_time, 0)
    IN  IF ~checked[1] THEN st_message(Return(d, None), "st.error", checked[2])
        ELSE IF res.exc = "none" THEN st_message(res, "st.success", "activity_ended")
        ELSE IF res.exc = "ValueError" THEN st_message(res, "st.error", res.msg)
        ELSE st_message(res, "st.error", "database_error")

_create_manual_activity(d, project_id, start_time, end_time, notes) ==
    LET clean == sanitize_string(notes)
        range == validate_time_range(start_time, Some(end_time))
        checked == validate_notes(clean)
        res == create_activity(d, project_id, start_time, Some(end_time), clean, 0)
    IN  IF ~range[1] THEN st_message(Return(d, None), "st.error", range[2])
        ELSE IF ~checked[1] THEN st_message(Return(d, None), "st.error", checked[2])
        ELSE IF res.exc = "none" THEN st_message(res, "st.success", "activity_ended")
        ELSE IF res.exc = "ValueError" THEN st_message(res, "st.error", res.msg)
        ELSE st_message(res, "st.error", "database_error")

\* the time range is validated when end_time is given; the notes are not
_update_activity(d, activity_id, project_id, start_time, end_time, notes) ==
    LET clean == sanitize_string(notes)
        range == validate_time_range(start_time, end_time)
        res == update_activity(d, activity_id, project_id, start_time, end_time, clean, 0)
    IN  IF end_time # None /\ ~range[1] THEN st_message(Return(d, None), "st.error", range[2])
        ELSE IF res.exc = "none"
        THEN IF res.ret THEN st_message(res, "st.success", "activity_updated")
             ELSE st_message(res, "st.error", "activity_not_found")
        ELSE IF res.exc = "ValueError" THEN st_message(res, "st.error", res.msg)
        ELSE st_message(res, "st.error", "database_error")

_delete_activity(d, activity_id) ==
    LET res == delete_activity(d, activity_id, 0)
    IN  IF res.exc = "none"
        THEN IF res.ret THEN st_message(res, "st.success", "activity_deleted")
             ELSE st_message(res, "st.error", "activity_not_found")
        ELSE st_message(res, "st.error", "database_error")

\* what can be typed into the notes field: nothing, text with spaces to
\* clean, and text at and just over notes_max_length
PageNotes ==
    {<<>>, <<SP, "a", SP, SP, "b", SP>>}
    \cup {Repeat("x", VALIDATION_RULES.notes_max_length + k) : k \in {0, 1}}

\* The page offers the stored projects and the listed activities for selection.
StartActivity(project_id, start_time, notes) ==
    LET res == _start_activity(db, project_id, start_time, notes)
    IN  /\ project_id \in DOMAIN db.projects
        /\ res.db.seq.activities <= MaxActivities
        /\ db' = res.db
        /\ last' = Called("_start_activity", 0, res)

EndListedActivity(activity_id, end_time) ==
    LET res == _end_activity(db, activity_id, end_time,
                             fromisoformat(db.activities[activity_id].start_time))
    IN  /\ \E row \in get_ongoing_activities(db) : row.id = activity_id
        /\ db' = res.db
        /\ last' = Called("_end_activity", 0, res)

CreateManualActivity(project_id, start_time, end_time, notes) ==
    LET res == _create_manual_activity(db, project_id, start_time, end_time, notes)
    IN  /\ project_id \in DOMAIN db.projects
        /\ res.db.seq.activities <= MaxActivities
        /\ db' = res.db
        /\ last' = Called("_create_manual_activity", 0, res)

\* the end inputs are shown only for an activity that has an end_time
UpdateListedActivity(activity_id, project_id, start_time, new_end, notes) ==
    LET stored == db.activities[activity_id].end_time
        end_time == IF stored = NULL THEN None ELSE Some(new_end)
        res == _update_activity(db, activity_id, project_id, start_time, end_time, notes)
    IN  /\ \E row \in get_all_activities(db) : row.id = activity_id
        /\ project_id \in DOMAIN db.projects
        /\ db' = res.db
        /\ last' = Called("_update_activity", 0, res)

DeleteListedActivity(activity_id) ==
    LET res == _delete_activity(db, activity_id)
    IN  /\ \E row \in get_all_activities(db) : row.id = activity_id
        /\ db' = res.db
        /\ last' = Called("_delete_activity", 0, res)

NextPage ==
    \/ CreateProject(<<"a">>, <<>>, 1, "Lainnya", 0)
    \/ \E p \in ProjectIds, s \in 0..1, n \in PageNotes : StartActivity(p, s, n)
    \/ \E a \in ActivityIds, e \in 0..1 : EndListedActivity(a, e)
    \/ \E p \in ProjectIds, s \in 0..1, e \in 0..1, n \in PageNotes :
            CreateManualActivity(p, s, e, n)
    \/ \E a \in ActivityIds, p \in ProjectIds, s \in 0..1, e \in 0..1,
          n \in PageNotes :
            UpdateListedActivity(a, p, s, e, n)
    \/ \E a \in ActivityIds : DeleteListedActivity(a)

SpecPage == Init /\ [][NextPage]_vars

\* --------------------------------------------------------- ids handed out
\* last also holds the ids the creating operations have returned: ever
\* holds all of them, file those returned since the database file was last
\* created.
Issuing(op, res, ever, file) == Called(op, 0, res) @@ [ever |-> ever, file |-> file]

InitIds ==
    /\ db = init_database(EmptyStore).db
    /\ last = Issuing("init_database", init_database(EmptyStore),
                      [projects |-> {}, activities |-> {}],
                      [projects |-> {}, activities |-> {}])

IssuingCreateProject ==
    LET res == create_project(db, <<"a">>, <<>>, 1, "Lainnya", 0)
    IN  /\ res.db.seq.projects <= MaxProjects
        /\ db' = res.db
        /\ last' = Issuing("create_project", res,
                           [last.ever EXCEPT !.projects = @ \cup {res.ret}],
                           [last.file EXCEPT !.projects = @ \cup {res.ret}])

IssuingCreateActivity(project_id, end_time) ==
    LET res == create_activity(db, project_id, 0, end_time, <<>>, 0)
    IN  /\ res.db.seq.activities <= MaxActivities
        /\ db' = res.db
        /\ last' = Issuing("create_activity", res,
                           [last.ever EXCEPT !.activities = @ \cup {res.ret}],
                           [last.file EXCEPT !.activities = @ \cup {res.ret}])

IssuingDeleteProject(project_id) ==
    LET res == delete_project(db, project_id, 0)
    IN  /\ db' = res.db
        /\ last' = Issuing("delete_project", res, last.ever, last.file)

IssuingDeleteActivity(activity_id) ==
    LET res == delete_activity(db, activity_id, 0)
    IN  /\ db' = res.db
        /\ last' = Issuing("delete_activity", res, last.ever, last.file)

\* _reset_database: the file is removed and created again
IssuingResetDatabase ==
    LET res == init_database(remove_database_file(db))
    IN  /\ db' = res.db
        /\ last' = Issuing("reset_database", res, last.ever,
                           [projects |-> {}, activities |-> {}])

NextIds ==
    \/ IssuingCreateProject
    \/ \E p \in ProjectIds, e \in {None, Some(1)} : IssuingCreateActivity(p, e)
    \/ \E p \in ProjectIds : IssuingDeleteProject(p)
    \/ \E a \in ActivityIds : IssuingDeleteActivity(a)
    \/ IssuingResetDatabase

SpecIds == InitIds /\ [][NextIds]_vars

\* ------------------------------------------------------------------ claims
Ended(d, a) == a \in DOMAIN d.activities /\ d.activities[a].end_time # NULL
Ongoing(d, a) == a \in DOMAIN d.activities /\ d.activities[a].end_time = NULL
OwnedBy(d, p) == {a \in DOMAIN d.activities : d.activities[a].project_id = p}

\* C1: when delete_project(p) returns for an existing project p, no stored
\* activity has project_id = p and get_activity_by_id finds none of the
\* activities that belonged to p.
C1_CascadeDelete ==
    [][(last'.op = "delete_project" /\ last'.exc = "none")
       => \A p \in DOMAIN db.projects :
            DeleteProject(p, 0)
            => /\ OwnedBy(db', p) = {}
               /\ \A a \in OwnedBy(db, p) : get_activity_by_id(db', a) = None]_vars

C1_Witness ==
    /\ last.op = "delete_project"
    /\ last.exc = "none"
    /\ last.ret = TRUE
    /\ last.removed # {}
    /\ db.activities # <<>>

\* C2: end_activity on an activity whose end_time is already set raises (with
\* no storage fault: "already ended") and leaves the activity's stored end_time
\* and duration_hours as they were, whatever end_time the call supplies.
C2_EndTwiceRaises ==
    [][last'.op = "end_activity"
       => \A a \in ActivityIds, e \in DateTimes, f \in 0..2 :
            (Ended(db, a) /\ EndActivity(a, e, f))
            => /\ last'.exc # "none"
               /\ f = 0 => (last'.exc = "ValueError" /\ last'.msg = "activity_already_ended")
               /\ db'.activities[a].end_time = db.activities[a].end_time
               /\ db'.activities[a].duration_hours = db.activities[a].duration_hours]_vars

C2_Witness ==
    /\ last.op = "end_activity"
    /\ last.exc = "ValueError"
    /\ last.msg = "activity_already_ended"

\* C3: end_activity on an ongoing activity with an end_time earlier than or
\* equal to its stored start_time raises and does not mutate the record: the
\* activity stays ongoing, end_time and duration_hours NULL.
C3_EndBeforeStartRaises ==
    [][last'.op = "end_activity"
       => \A a \in ActivityIds, e \in DateTimes, f \in 0..2 :
            (/\ Ongoing(db, a)
             /\ e <= fromisoformat(db.activities[a].start_time)
             /\ EndActivity(a, e, f))
            => /\ last'.exc # "none"
               /\ f = 0 => (last'.exc = "ValueError" /\ last'.msg = "end_time_before_start")
               /\ db'.activities[a] = db.activities[a]
               /\ db'.activities[a].end_time = NULL
               /\ db'.activities[a].duration_hours = NULL]_vars

C3_Witness ==
    /\ last.op = "end_activity"
    /\ last.exc = "ValueError"
    /\ last.msg = "end_time_before_start"
    /\ \E a \in DOMAIN db.activities : Ongoing(db, a)

\* C4: create_activity with an end_time that is present and <= start_time
\* raises a validation error and inserts nothing: the stored activities are
\* unchanged.
C4_CreateBadRangeRaises ==
    [][last'.op = "create_activity"
       => \A p \in ProjectIds, s \in DateTimes, e \in DateTimes, n \in NotesInputs,
             f \in 0..1 :
            (e <= s /\ CreateActivity(p, s, Some(e), n, f))
            => /\ last'.exc = "ValueError"
               /\ last'.msg = "end_time_before_start"
               /\ db'.activities = db.activities
               /\ db'.seq = db.seq]_vars

C4_Witness ==
    /\ last.op = "create_activity"
    /\ last.exc = "ValueError"
    /\ last.msg = "end_time_before_start"
    /\ db.activities # <<>>

\* C5: every stored activity is either ongoing (end_time and duration_hours
\* both NULL) or has end_time > start_time strictly and duration_hours equal to
\* end_time - start_time in hours.
C5_TimeInvariant ==
    \A a \in DOMAIN db.activities :
        LET row == db.activities[a]
        IN  \/ row.end_time = NULL /\ row.duration_hours = NULL
            \/ /\ row.end_time # NULL
               /\ fromisoformat(row.end_time) > fromisoformat(row.start_time)
               /\ row.duration_hours =
                     <<fromisoformat(row.end_time) - fromisoformat(row.start_time)>>

C5_Witness ==
    /\ last.op = "update_activity"
    /\ last.exc = "none"
    /\ last.ret = TRUE
    /\ \E a \in DOMAIN db.activities : Ended(db, a) /\ db.activities[a].duration_hours = <<2>>
    /\ \E a \in DOMAIN db.activities : Ongoing(db, a)

\* C6: every stored activity's project_id refers to a project that exists in
\* the store.
C6_ProjectExists ==
    \A a \in DOMAIN db.activities : db.activities[a].project_id \in DOMAIN db.projects

\* hours logged on project p by the completed activities with ids 1..n, from
\* their stored start and end times
RECURSIVE LoggedUpTo(_, _, _)
LoggedUpTo(d, p, n) ==
    IF n = 0 THEN 0
    ELSE LoggedUpTo(d, p, n - 1) +
         (IF Ended(d, n) /\ d.activities[n].project_id = p
          THEN fromisoformat(d.activities[n].end_time)
                 - fromisoformat(d.activities[n].start_time)
          ELSE 0)

\* C7: the total_logged_hours that get_project_by_id(p) and get_all_projects
\* report for a project p is the sum of the durations of p's completed
\* activities: 0 when it has none, ongoing activities contributing nothing.
C7_LoggedHours ==
    \A p \in DOMAIN db.projects :
        /\ get_project_by_id(db, p).total_logged_hours =
              LoggedUpTo(db, p, db.seq.activities)
        /\ \A row \in get_all_projects(db) :
              row.id = p => row.total_logged_hours = LoggedUpTo(db, p, db.seq.activities)
        /\ \E row \in get_all_projects(db) : row.id = p
        /\ (\A a \in OwnedBy(db, p) : Ongoing(db, a))
              => get_project_by_id(db, p).total_logged_hours = 0

C7_Witness ==
    \E p \in DOMAIN db.projects :
        /\ Cardinality({a \in OwnedBy(db, p) : Ended(db, a)}) = 2
        /\ get_project_by_id(db, p).total_logged_hours = 3

\* C8 as claimed: get_project_by_id(create_project(name, description, hours,
\* category)) returns the name, hours and category given, total_logged_hours 0
\* and status "active".
C8_RoundTripAsGiven ==
    [][(last'.op = "create_project" /\ last'.exc = "none")
       => \A in \in ProjectInputs :
            CreateProject(in.name, <<>>, in.estimated_hours, in.category, 0)
            => LET row == get_project_by_id(db', last'.ret)
               IN  /\ row # None
                   /\ row.name = in.name
                   /\ row.estimated_hours = in.estimated_hours
                   /\ row.category = in.category
                   /\ row.total_logged_hours = 0
                   /\ row.status = "active"]_vars

\* C8, amended: get_project_by_id(create_project(name, description, hours,
\* category)) returns the name stripped of surrounding whitespace, the hours and
\* category given, status "active", and as total_logged_hours the hours of the
\* completed activities already stored under the new id (0 when there are none).
C8_RoundTrip ==
    [][(last'.op = "create_project" /\ last'.exc = "none")
       => \A in \in ProjectInputs :
            CreateProject(in.name, <<>>, in.estimated_hours, in.category, 0)
            => LET row == get_project_by_id(db', last'.ret)
               IN  /\ row # None
                   /\ row.name = strip(in.name)
                   /\ row.estimated_hours = in.estimated_hours
                   /\ row.category = in.category
                   /\ row.total_logged_hours =
                         LoggedUpTo(db, last'.ret, db.seq.activities)
                   /\ (OwnedBy(db, last'.ret) = {} => row.total_logged_hours = 0)
                   /\ row.status = "active"]_vars

C8_Witness ==
    /\ last.op = "create_project"
    /\ last.exc = "none"
    /\ last.ret = 2
    /\ db.projects[2].name = <<"b">>
    /\ db.projects[2].estimated_hours = 10
    /\ OwnedBy(db, 2) = {}
    /\ 1 \in DOMAIN db.projects

\* C9: delete_project with an id for which no project exists returns False and
\* changes nothing: no project row and no activity row is removed or changed.
C9_DeleteMissingIsNoop ==
    [][last'.op = "delete_project"
       => \A p \in ProjectIds :
            (p \notin DOMAIN db.projects /\ DeleteProject(p, 0))
            => (last'.ret = FALSE /\ db' = db)]_vars

\* C10: the cascade delete is atomic. A delete_project that raises (a storage
\* error after the activities were deleted and before the project row is)
\* leaves the store as it was before the call, rolled back; no call leaves the
\* project present with its activities gone.
C10_CascadeAtomic ==
    [][last'.op = "delete_project"
       => \A p \in ProjectIds, f \in 0..2 :
            DeleteProject(p, f)
            => /\ f = 2 => last'.exc = "sqlite3.Error"
               /\ last'.exc # "none" => (db' = db /\ last'.txn = "rolledback")
               /\ p \in DOMAIN db'.projects => OwnedBy(db', p) = OwnedBy(db, p)]_vars

C10_Witness ==
    /\ last.op = "delete_project"
    /\ last.fault = 2
    /\ last.exc = "sqlite3.Error"
    /\ \A p \in ProjectIds : p \in DOMAIN db.projects /\ OwnedBy(db, p) # {}

\* C11: once a store operation that opened a connection has returned or
\* raised, the connection is closed; the transaction was committed exactly when
\* no exception occurred; otherwise it was rolled back (the store is as it was
\* before the call) and the exception reached the caller.
C11_ConnectionReleased ==
    [][last'.txn # "none"
       => /\ last'.conn = "closed"
          /\ last'.txn \in {"committed", "rolledback"}
          /\ last'.txn = "committed" <=> last'.exc = "none"
          /\ last'.txn = "rolledback"
               => /\ db' = db
                  /\ last'.exc \in {"ValueError", "sqlite3.Error"}
                  /\ last'.ret = None]_vars

\* end_activity raised its domain error inside the connection scope
C11_Witness ==
    /\ last.op = "end_activity"
    /\ last.exc = "ValueError"
    /\ last.msg = "activity_already_ended"
    /\ last.txn = "rolledback"
    /\ last.conn = "closed"

\* the six boundary values of the claim, each with the level it names
C12_Boundaries ==
    {<<Q(4999, 100), "critical">>, <<Q(50, 1), "warning">>, <<Q(7999, 100), "warning">>,
     <<Q(80, 1), "good">>, <<Q(100, 1), "good">>, <<Q(10001, 100), "excellent">>}

\* C12: get_efficiency_level maps every number to exactly one level: critical
\* below 50, warning from 50 up to but not including 80, good from 80 to 100
\* inclusive, excellent above 100; it never raises on a number.
C12_LevelPartition ==
    (last.op = "get_efficiency_level" /\ Len(last.args[1]) = 2)
    => LET x == last.args[1]
           below(t) == x[1] < t * x[2]
           upto(t) == x[1] <= t * x[2]
       IN  /\ last.exc = "none"
           /\ last.ret \in {"critical", "warning", "good", "excellent"}
           /\ last.ret = "critical" <=> below(50)
           /\ last.ret = "warning" <=> (~below(50) /\ below(80))
           /\ last.ret = "good" <=> (~below(80) /\ upto(100))
           /\ last.ret = "excellent" <=> ~upto(100)
           /\ \A b \in C12_Boundaries : x = b[1] => last.ret = b[2]

C12_Witness ==
    /\ last.op = "get_efficiency_level"
    /\ last.exc = "none"
    /\ <<last.args[1], last.ret>> \in C12_Boundaries
    /\ last.args[1] = Q(80, 1)

\* a real number, as opposed to None and nan
IsNumber(x) == Len(x) = 2

\* C13: for estimated > 0 and logged >= 0 calculate_efficiency returns exactly
\* 100 * logged / estimated, with no upper bound; it never raises, and returns 0
\* when estimated is None, nan, zero or negative or logged is None, nan or
\* negative.
C13_Efficiency ==
    last.op = "calculate_efficiency"
    => LET l == last.args[1]
           e == last.args[2]
           r == last.ret
           usable == /\ IsNumber(l) /\ l[1] >= 0
                     /\ IsNumber(e) /\ e[1] > 0
       IN  /\ last.exc = "none"
           /\ IsNumber(r)
           /\ usable => r[1] * e[1] * l[2] = 100 * l[1] * e[2] * r[2]
           /\ ~usable => r = Zero

\* two hours logged against half an hour estimated: 400 percent
C13_Witness ==
    /\ last.op = "calculate_efficiency"
    /\ last.args = <<Q(2, 1), Q(1, 2)>>
    /\ last.exc = "none"
    /\ last.ret = Q(400, 1)

\* clamp(x, 0, 1) of a real number
Clamp01(x) == IF x[1] < 0 THEN Zero ELSE IF x[1] > x[2] THEN One ELSE x

\* C14: for every pair of arguments, None and nan included, calculate_progress
\* does not raise and returns clamp(calculate_efficiency / 100, 0, 1), a value
\* in [0, 1] that is 1 whenever the efficiency is 100 or more.
C14_ProgressTotal ==
    last.op = "calculate_progress"
    => LET eff == calculate_efficiency(last.args[1], last.args[2]).ret
           r == last.ret
       IN  /\ last.exc = "none"
           /\ IsNumber(r)
           /\ 0 <= r[1] /\ r[1] <= r[2]
           /\ r = Clamp01(truediv(eff, Hundred))
           /\ eff[1] >= 100 * eff[2] => r = One

\* C15: every stored project's status is one of active, completed, paused, and
\* the project a successful create_project has just stored is active.
C15_StatusDomain ==
    /\ \A p \in DOMAIN db.projects : db.projects[p].status \in STATUS_OPTIONS
    /\ (last.op = "create_project" /\ last.exc = "none")
        => db.projects[last.ret].status = "active"

\* a name that is empty or only whitespace, or hours that are not positive
Unacceptable(in) == strip(in.name) = <<>> \/ in.estimated_hours <= 0

\* C16: every stored project has a name that is non-empty after trimming and
\* estimated_hours > 0; create_project and update_project raise ValueError and
\* leave the store as it was when the name is empty or whitespace-only or the
\* hours are zero or negative.
C16_ProjectFieldsValid ==
    [][/\ \A p \in DOMAIN db'.projects :
            /\ strip(db'.projects[p].name) # <<>>
            /\ db'.projects[p].estimated_hours > 0
       /\ last'.op \in {"create_project", "update_project"}
           => \A in \in ProjectInputs :
                (/\ Unacceptable(in)
                 /\ \/ \E f \in 0..1 :
                         CreateProject(in.name, <<>>, in.estimated_hours, in.category, f)
                    \/ \E p \in ProjectIds, st \in ProjectStatusInputs :
                         UpdateProject(p, in.name, <<>>, in.estimated_hours,
                                       in.category, st, 0))
                => /\ last'.exc = "ValueError"
                   /\ last'.msg \in {"project_name_required", "estimated_hours_invalid"}
                   /\ db' = db]_vars

\* update_project has just refused zero hours for a stored project
C16_Witness ==
    /\ last.op = "update_project"
    /\ last.exc = "ValueError"
    /\ last.msg = "estimated_hours_invalid"
    /\ db.projects # <<>>

\* C17 as stated: once end_activity has succeeded on an activity id, every later
\* end_activity on that id fails, whatever other operations came in between.
C17_EndsOnce ==
    [][(last'.op = "end_activity" /\ last'.id \in last.ended)
       => last'.exc # "none"]_vars

\* C17: end_activity succeeds only on an ongoing activity and leaves it
\* completed, and after it has succeeded on an id every later end_activity on
\* that id fails and writes nothing, unless an update_activity has cleared the
\* activity's end_time in between.
C17_EndsOncePerOpening ==
    [][last'.op = "end_activity"
       => /\ last'.id \in last.sealed => (last'.exc # "none" /\ db' = db)
          /\ last'.exc = "none"
               => /\ last'.ret = TRUE
                  /\ Ongoing(db, last'.id)
                  /\ Ended(db', last'.id)]_vars

\* a second end_activity on an activity that end_activity had completed
C17_Witness ==
    /\ last.op = "end_activity"
    /\ last.id \in last.sealed
    /\ Ended(db, last.id)
    /\ last.exc = "ValueError"
    /\ last.msg = "activity_already_ended"

\* C18: init_database on an initialized store leaves every project, activity
\* and setting as it was, a default setting the user has changed included; on
\* an empty store (the file just removed) it creates exactly the two default
\* settings target_hours_per_day and efficiency_threshold and nothing else.
C18_InitIdempotent ==
    [][/\ last'.op = "init_database" => (last'.exc = "none" /\ db' = db)
       /\ last'.op = "reset_database"
           => /\ last'.exc = "none"
              /\ DOMAIN db'.settings = {"target_hours_per_day", "efficiency_threshold"}
              /\ db'.settings.target_hours_per_day = "8.0"
              /\ db'.settings.efficiency_threshold = "0.7"
              /\ db'.projects = <<>>
              /\ db'.activities = <<>>]_vars

\* init_database has run on a store with a project, an activity and a changed
\* default setting
C18_Witness ==
    /\ last.op = "init_database"
    /\ db.settings.target_hours_per_day = "6.5"
    /\ db.projects # <<>>
    /\ db.activities # <<>>

\* the messages of the checks that fail, in the order the checks are listed
FailedMessages(results) ==
    LET failing == SelectSeq(results, LAMBDA r : ~r[1])
    IN  [i \in 1..Len(failing) |-> failing[i][2]]

\* C19: validate_project returns the message of every one of the name,
\* estimated-hours and category checks that fails, in that order, and its flag
\* is true exactly when all three validators pass, which is exactly when the
\* list is empty.
C19_AllMessages ==
    last.op = "validate_project"
    => LET name == validate_project_name(last.args[1])
           hours == validate_estimated_hours(last.args[2])
           category == validate_category(last.args[3])
           valid == last.ret[1]
           errors == last.ret[2]
       IN  /\ last.exc = "none"
           /\ errors = FailedMessages(<<name, hours, category>>)
           /\ valid <=> (name[1] /\ hours[1] /\ category[1])
           /\ valid <=> errors = <<>>

\* validate_project("", 0, "Invalid"): all three checks fail
C19_Witness ==
    /\ last.op = "validate_project"
    /\ last.args = <<<<>>, Zero, "Invalid">>
    /\ last.ret = <<FALSE, <<"project_name_required", "estimated_hours_invalid",
                             "Kategori tidak valid!">>>>

\* C20: calculate_statistics does not raise on degenerate input. For an empty
\* sequence count is 0 and every other field is 0; for a single sample x count
\* is 1, mean = median = min = max = x and std, range, skewness and kurtosis
\* are 0; with fewer than 3 samples skewness and kurtosis are 0.
C20_DegenerateStatistics ==
    last.op = "calculate_statistics"
    => LET data == last.args[1]
           r == last.ret
       IN  /\ last.exc = "none"
           /\ Len(data) = 0
               => /\ r.count = 0
                  /\ \A f \in DOMAIN r \ {"count"} : r[f] = Zero
           /\ Len(data) = 1
               => /\ r.count = 1
                  /\ \A f \in {"mean", "median", "min", "max"} : r[f] = data[1]
                  /\ \A f \in {"std", "range", "skewness", "kurtosis"} : r[f] = Zero
           /\ Len(data) < 3 => (r.skewness = Zero /\ r.kurtosis = Zero)

\* calculate_statistics([2.0])
C20_Witness ==
    /\ last.op = "calculate_statistics"
    /\ last.args = <<<<Q(2, 1)>>>>
    /\ last.exc = "none"
    /\ last.ret.count = 1
    /\ last.ret.mean = Q(2, 1)
    /\ last.ret.std = Zero

\* hours between start and end of the completed activities 1..n
RECURSIVE CompletedHoursUpTo(_, _)
CompletedHoursUpTo(d, n) ==
    IF n = 0 THEN 0
    ELSE CompletedHoursUpTo(d, n - 1) +
         (IF Ended(d, n)
          THEN fromisoformat(d.activities[n].end_time)
               - fromisoformat(d.activities[n].start_time)
          ELSE 0)

\* C21: get_overall_statistics succeeds on every store: with no activities
\* active_days and avg_hours_per_day are 0, and otherwise avg_hours_per_day is
\* total_hours / active_days, total_hours being the sum of the completed
\* durations and active_days the number of distinct start dates.
C21_AveragePerDay ==
    (last.op = "get_overall_statistics" /\ last.fault = 0)
    => /\ last.exc = "none"
       /\ LET r == last.ret
               days == {fromisoformat(db.activities[a].start_time) \div 24 :
                            a \in DOMAIN db.activities}
           IN  /\ r.total_hours = CompletedHoursUpTo(db, MaxActivities)
               /\ r.active_days = Cardinality(days)
               /\ db.activities = <<>> => (r.active_days = 0 /\ r.avg_hours_per_day = Zero)
               /\ r.active_days = 0 => r.avg_hours_per_day = Zero
               /\ r.active_days > 0
                   => r.avg_hours_per_day[1] * r.active_days
                        = r.total_hours * r.avg_hours_per_day[2]
               /\ r.avg_hours_per_day
                    = calculate_average_per_day(Q(r.total_hours, 1), r.active_days).ret

\* two activities on two different days, one hour logged
C21_Witness ==
    /\ last.op = "get_overall_statistics"
    /\ last.exc = "none"
    /\ last.ret.active_days = 2
    /\ last.ret.total_hours = 1
    /\ last.ret.avg_hours_per_day = Q(1, 2)

\* C22: end_activity on an id no activity has returns False, without raising,
\* and leaves the store as it was.
C22_MissingReturnsFalse ==
    (last.op = "end_activity" /\ last.fault = 0 /\ last.id \notin DOMAIN db.activities)
    => (last.exc = "none" /\ last.ret = FALSE)

\* caller c has run end_activity to its end on an activity it read as ongoing,
\* with an end_time after the start it read
RacedOn(c, a) ==
    LET call == last.call[c]
    IN  /\ call.pc = "done"
        /\ call.id = a
        /\ call.row # None
        /\ call.row[1].end_time = NULL
        /\ call.end_time > fromisoformat(call.row[1].start_time)

Succeeded(c) == last.call[c].exc = "none" /\ last.call[c].ret = TRUE

\* C23: when two end_activity calls on one ongoing activity have both read
\* end_time as null, exactly one of them updates the record, the other raises
\* or returns False, and the stored end_time and duration_hours are both the
\* ones of the call that succeeded.
C23_SingleWinner ==
    \A a \in ActivityIds :
        (\A c \in Callers : RacedOn(c, a))
        => \E w \in Callers :
            /\ Succeeded(w)
            /\ \A o \in Callers \ {w} : ~Succeeded(o)
            /\ db.activities[a].end_time = adapt_datetime(last.call[w].end_time)
            /\ db.activities[a].duration_hours
                 = Some(last.call[w].end_time - fromisoformat(db.activities[a].start_time))

\* both read the activity as ongoing, the first to write won at hour 2 and the
\* other, asking for hour 1, was told False
C23_Witness ==
    /\ last.op = "end_activity.commit"
    /\ RacedOn(1, 1) /\ RacedOn(2, 1)
    /\ last.call[1].end_time = 2 /\ last.call[2].end_time = 1
    /\ Succeeded(1)
    /\ last.call[2].exc = "none" /\ last.call[2].ret = FALSE
    /\ last.call[2].rowcount = 0
    /\ db.activities[1].end_time = adapt_datetime(2)

\* C24: update_activity with end_time None on a completed activity re-opens
\* it: its end_time and duration_hours are NULL, get_ongoing_activities
\* returns it, no project's total_logged_hours counts it, and an end_activity
\* on it that follows succeeds.
C24_Reopens ==
    [][(last'.op = "update_activity" /\ last'.exc = "none")
       => \A a \in ActivityIds :
            (Ended(db, a) /\ Ongoing(db', a))
            => /\ db'.activities[a].duration_hours = NULL
               /\ \E row \in get_ongoing_activities(db') : row.id = a
               /\ \A p \in DOMAIN db'.projects :
                    ProjectRow(db', p).total_logged_hours
                      = COALESCE(SumDurations(db'.activities, OwnedBy(db', p) \ {a}), 0)
               /\ LET res == end_activity(db', a,
                                fromisoformat(db'.activities[a].start_time) + 1, 0)
                  IN  res.exc = "none" /\ res.ret = TRUE /\ Ended(res.db, a)]_vars

\* C25 as stated: update_activity on an id no activity has returns False,
\* whatever the other arguments, and changes nothing.
C25_MissingAlwaysFalse ==
    \A a \in ActivityIds \ DOMAIN db.activities, p \in ProjectIds, s \in DateTimes,
       e \in OptDateTimes, n \in NotesInputs :
        LET res == update_activity(db, a, p, s, e, n, 0)
        IN  res.exc = "none" /\ res.ret = FALSE /\ res.db = db

\* C25: a failing update_activity is a no-op. In every reachable store, a call
\* with end_time present and end_time <= start_time raises ValueError and
\* leaves every field of every activity as it was; a call with an acceptable
\* time range and an id no activity has returns False and leaves the store
\* unchanged; and no call that raises changes the store.
C25_FailingUpdateIsNoop ==
    \A a \in ActivityIds, p \in ProjectIds, s \in DateTimes, e \in OptDateTimes,
       n \in NotesInputs, f \in 0..1 :
        LET res == update_activity(db, a, p, s, e, n, f)
        IN  /\ (e # None /\ e[1] <= s)
                 => /\ res.exc = "ValueError"
                    /\ res.msg = "end_time_before_start"
                    /\ res.db = db
            /\ (~(e # None /\ e[1] <= s) /\ a \notin DOMAIN db.activities /\ f = 0)
                 => /\ res.exc = "none"
                    /\ res.ret = FALSE
                    /\ res.db = db
            /\ res.exc # "none" => res.db = db

\* a refused update next to a completed activity, which keeps its fields
C25_Witness ==
    /\ last.op = "update_activity"
    /\ last.exc = "ValueError"
    /\ last.msg = "end_time_before_start"
    /\ last.txn = "none"
    /\ \E a \in DOMAIN db.activities : Ended(db, a)

\* C26: whatever the activities page helpers are asked to do, no stored
\* activity has notes longer than notes_max_length (500) characters.
C26_NotesBounded ==
    \A a \in DOMAIN db.activities :
        Len(db.activities[a].notes) <= VALIDATION_RULES.notes_max_length

\* the call raised the time-range ValueError
RangeRefused(res) == res.exc = "ValueError" /\ res.msg = "end_time_before_start"

\* C27: validator and store agree on time ranges. For every start_time and
\* optional end_time, in every store, validate_time_range returns valid
\* exactly when create_activity and update_activity with these times do not
\* raise the time-range ValueError: an absent end is accepted by all three, an
\* end equal to or before the start is refused by all three.
C27_ValidatorAgreesWithStore ==
    \A s \in DateTimes, e \in OptDateTimes, p \in ProjectIds, a \in ActivityIds :
        LET valid == validate_time_range(s, e)[1]
            created == create_activity(db, p, s, e, <<>>, 0)
            updated == update_activity(db, a, p, s, e, <<>>, 0)
        IN  /\ valid <=> ~RangeRefused(created)
            /\ valid <=> ~RangeRefused(updated)
            /\ e = None => valid
            /\ e # None => (valid <=> e[1] > s)
            /\ ~valid => validate_time_range(s, e)[2] = created.msg

\* the manual form was refused by the validator for end = start, next to an
\* activity the store had accepted
C27_Witness ==
    /\ last.op = "_create_manual_activity"
    /\ last.ret = "st.error"
    /\ last.msg = "end_time_before_start"
    /\ last.txn = "none"
    /\ \E a \in DOMAIN db.activities : Ended(db, a)

\* C28 as stated: the id a create returns differs from every id an earlier
\* create of the same kind has returned.
C28_NeverReused ==
    [][/\ (last'.op = "create_project" /\ last'.exc = "none")
            => last'.ret \notin last.ever.projects
       /\ (last'.op = "create_activity" /\ last'.exc = "none")
            => last'.ret \notin last.ever.activities]_vars

\* C28: as long as the database file is not removed and created again, the
\* id a create returns differs from every id an earlier create of the same
\* kind has returned, deleted records included, and it is larger than all of
\* them; a stored record keeps its id until it is deleted.
C28_NeverReusedInFile ==
    [][/\ (last'.op = "create_project" /\ last'.exc = "none")
            => /\ last'.ret \notin last.file.projects
               /\ \A p \in last.file.projects : last'.ret > p
               /\ \A p \in DOMAIN db.projects : db'.projects[p] = db.projects[p]
       /\ (last'.op = "create_activity" /\ last'.exc = "none")
            => /\ last'.ret \notin last.file.activities
               /\ \A a \in last.file.activities : last'.ret > a
               /\ \A a \in DOMAIN db.activities : db'.activities[a] = db.activities[a]]_vars

\* activity 1 was created and deleted; the next activity got id 2
C28_Witness ==
    /\ last.op = "create_activity"
    /\ last.exc = "none"
    /\ last.ret = 2
    /\ last.file.activities = {1, 2}
    /\ DOMAIN db.activities = {2}

\* C29: update_project_status(p, s) changes only the status of project p. In
\* every reachable store and for every id and status: when project p is
\* stored the call returns True, p has the new status and its name,
\* description, estimated_hours and category as before, and every other
\* project, every activity, every setting and the id counters are unchanged;
\* when no project has the id it returns False and the store is unchanged.
C29_StatusOnly ==
    \A p \in ProjectIds, s \in ProjectStatusInputs :
        LET res == update_project_status(db, p, s, 0)
        IN  /\ res.exc = "none"
            /\ res.ret = (p \in DOMAIN db.projects)
            /\ p \notin DOMAIN db.projects => res.db = db
            /\ DOMAIN res.db.projects = DOMAIN db.projects
            /\ \A q \in DOMAIN db.projects :
                IF q = p
                THEN /\ res.db.projects[q].status = s
                     /\ res.db.projects[q].name = db.projects[q].name
                     /\ res.db.projects[q].description = db.projects[q].description
                     /\ res.db.projects[q].estimated_hours = db.projects[q].estimated_hours
                     /\ res.db.projects[q].category = db.projects[q].category
                ELSE res.db.projects[q] = db.projects[q]
            /\ res.db.activities = db.activities
            /\ res.db.settings = db.settings
            /\ res.db.seq = db.seq

\* one of two projects was completed next to a logged activity; the other is
\* still active
C29_Witness ==
    /\ last.op = "update_project_status"
    /\ last.exc = "none"
    /\ last.ret = TRUE
    /\ \E p, q \in DOMAIN db.projects :
        db.projects[p].status = "completed" /\ db.projects[q].status = "active"
    /\ db.activities # <<>>

\* total_logged_hours summed over the get_all_projects rows of projects 1..n
RECURSIVE ListedHoursUpTo(_, _)
ListedHoursUpTo(d, n) ==
    IF n = 0 THEN 0
    ELSE ListedHoursUpTo(d, n - 1) +
         (IF n \in DOMAIN d.projects THEN ProjectRow(d, n).total_logged_hours ELSE 0)

\* C30: the aggregate and the listings agree in every reachable state:
\* total_hours of get_overall_statistics is the sum of total_logged_hours over
\* the rows of get_all_projects, and total_activities is the number of rows
\* of get_all_activities.
C30_AggregateMatchesListings ==
    LET stats == get_overall_statistics(db, 0).ret
    IN  /\ \A row \in get_all_projects(db) : row = ProjectRow(db, row.id)
        /\ stats.total_hours = ListedHoursUpTo(db, db.seq.projects)
        /\ stats.total_activities = Cardinality(get_all_activities(db))

=============================================================================
